---- MODULE Spec2Model ----
(***************************************************************************)
(* Model of the RAG service core of ecommerce-support:                     *)
(*   rag-service/src/ingest.py     chunk_text, ingest_documents, singletons*)
(*   rag-service/src/retriever.py  search, get_collection_count            *)
(* A Python str is a sequence of one-character strings.                    *)
(***************************************************************************)
EXTENDS Integers, Sequences, FiniteSets, TLC

(***************************************************************************)
(* Bounds of the model.                                                    *)
(***************************************************************************)
MaxTextLen == 6          \* texts over Alphabet
MaxChunkSize == 4
MaxLongLen == 11         \* texts over LongAlphabet
MaxLongChunkSize == 7
MaxOverlap == 3

NL == "\n"
SP == " "
\* the characters str.strip() removes that the modelled texts contain
Whitespace == {SP, NL, "\t"}
\* the literal "\n\n" of ingest.py lines 76, 87, 92
SEP == <<NL, NL>>
Alphabet == {"a", "b", NL}
LongAlphabet == {"a", NL}

Min(S) == CHOOSE x \in S : \A y \in S : x <= y
Max(S) == CHOOSE x \in S : \A y \in S : y <= x

(***************************************************************************)
(* Python string primitives used by chunk_text.                            *)
(***************************************************************************)
\* str.strip(): drop leading and trailing whitespace
strip(s) ==
    LET keep == {i \in 1..Len(s) : s[i] \notin Whitespace}
    IN  IF keep = {} THEN <<>> ELSE SubSeq(s, Min(keep), Max(keep))

\* str.lstrip()
lstrip(s) ==
    LET keep == {i \in 1..Len(s) : s[i] \notin Whitespace}
    IN  IF keep = {} THEN <<>> ELSE SubSeq(s, Min(keep), Len(s))

\* str.split(sep): leftmost, non-overlapping occurrences; empty pieces kept
RECURSIVE split(_, _)
split(s, sep) ==
    LET occ == {i \in 1..(Len(s) - Len(sep) + 1) : SubSeq(s, i, i + Len(sep) - 1) = sep}
    IN  IF occ = {} THEN <<s>>
        ELSE <<SubSeq(s, 1, Min(occ) - 1)>>
             \o split(SubSeq(s, Min(occ) + Len(sep), Len(s)), sep)

\* s[-k:] for 0 < k < len(s)
last_chars(s, k) == SubSeq(s, Len(s) - k + 1, Len(s))

\* [f(x) for x in xs if x]: the non-empty elements, in order
RECURSIVE non_empty(_)
non_empty(xs) ==
    IF xs = <<>> THEN <<>>
    ELSE IF Head(xs) = <<>> THEN non_empty(Tail(xs))
         ELSE <<Head(xs)>> \o non_empty(Tail(xs))

\* ingest.py line 76: [p.strip() for p in text.split("\n\n") if p.strip()]
split_paragraphs(text) ==
    LET pieces == split(text, SEP)
    IN  non_empty([i \in 1..Len(pieces) |-> strip(pieces[i])])

(***************************************************************************)
(* chunk_text, ingest.py lines 67-100.  The loop state is the pair         *)
(* (chunks, current_chunk); seed/seeds are history: the text carried over  *)
(* from the closed accumulator (with its separator) into the current one,  *)
(* and the same for every chunk already emitted.                           *)
(***************************************************************************)
\* mutant of must_close: ">=" for ">"
must_close_at_limit(current_chunk, paragraph, chunk_size) ==
    current_chunk /= <<>> /\ Len(current_chunk) + Len(paragraph) + 2 >= chunk_size

\* line 83: the closing condition
must_close(current_chunk, paragraph, chunk_size) ==
    current_chunk /= <<>> /\ Len(current_chunk) + Len(paragraph) + 2 > chunk_size

\* mutant of keeps_overlap: ">=" for ">"
keeps_overlap_at_limit(current_chunk, overlap) ==
    overlap > 0 /\ Len(current_chunk) >= overlap

\* line 86: whether the closed accumulator seeds the next one
keeps_overlap(current_chunk, overlap) ==
    overlap > 0 /\ Len(current_chunk) > overlap

\* mutant of overlap_seed: the slice starts one character early
overlap_seed_one_more(current_chunk, overlap) ==
    IF keeps_overlap(current_chunk, overlap)
    THEN last_chars(current_chunk, overlap + 1) \o SEP
    ELSE <<>>

\* lines 86-89: the text carried into the accumulator opened after a close
overlap_seed(current_chunk, overlap) ==
    IF keeps_overlap(current_chunk, overlap)
    THEN last_chars(current_chunk, overlap) \o SEP
    ELSE <<>>

\* lines 82-94: one iteration of the loop over the paragraphs
loop_body(st, paragraph, chunk_size, overlap) ==
    IF must_close(st.current_chunk, paragraph, chunk_size)
    THEN [chunks |-> Append(st.chunks, strip(st.current_chunk)),
          current_chunk |-> overlap_seed(st.current_chunk, overlap) \o paragraph,
          seeds |-> Append(st.seeds, st.seed),
          seed |-> overlap_seed(st.current_chunk, overlap)]
    ELSE [chunks |-> st.chunks,
          current_chunk |-> IF st.current_chunk /= <<>>
                            THEN st.current_chunk \o SEP \o paragraph
                            ELSE paragraph,
          seeds |-> st.seeds,
          seed |-> st.seed]

\* mutant of final_chunk: the last accumulator is forgotten
final_chunk_forgotten(st) == st

\* lines 96-98: the last accumulator
final_chunk(st) ==
    IF strip(st.current_chunk) /= <<>>
    THEN [st EXCEPT !.chunks = Append(st.chunks, strip(st.current_chunk)),
                    !.seeds = Append(st.seeds, st.seed)]
    ELSE st

\* lines 78-79
loop_init == [chunks |-> <<>>, current_chunk |-> <<>>, seeds |-> <<>>, seed |-> <<>>]

RECURSIVE run_loop(_, _, _, _)
run_loop(st, paragraphs, chunk_size, overlap) ==
    IF paragraphs = <<>> THEN st
    ELSE run_loop(loop_body(st, Head(paragraphs), chunk_size, overlap),
                  Tail(paragraphs), chunk_size, overlap)

\* the whole function: lines 76-100
chunk_text(text, chunk_size, overlap) ==
    final_chunk(run_loop(loop_init, split_paragraphs(text), chunk_size, overlap)).chunks

(***************************************************************************)
(* ingest_documents, ingest.py lines 124-179: the pure parts.              *)
(***************************************************************************)
Digits == <<"0", "1", "2", "3", "4", "5", "6", "7", "8", "9">>

\* str(i) / the {i} of an f-string, for i >= 0
RECURSIVE str_int(_)
str_int(n) ==
    IF n < 10 THEN <<Digits[n + 1]>>
    ELSE str_int(n \div 10) \o <<Digits[(n % 10) + 1]>>

\* mutant of chunk_index: enumerate(chunks, 1)
chunk_index_from_one(pos) == pos

\* line 157: enumerate() counts from 0; pos is the 1-based position
chunk_index(pos) == pos - 1

\* line 158: f"{filename}::chunk_{i}"
chunk_id(filename, i) ==
    filename \o <<":", ":", "c", "h", "u", "n", "k", "_">> \o str_int(i)

\* lines 156-164: the ids, documents and metadatas of one document
document_entries(filename, content, cfg) ==
    LET cs == chunk_text(content, cfg.CHUNK_SIZE, cfg.CHUNK_OVERLAP)
    IN  [pos \in 1..Len(cs) |->
            [id |-> chunk_id(filename, chunk_index(pos)),
             document |-> cs[pos],
             metadata |-> [source |-> filename,
                           chunk_index |-> str_int(chunk_index(pos))]]]

\* lines 151-164: all_ids, all_chunks, all_metadatas, kept side by side
RECURSIVE all_entries(_, _)
all_entries(ds, cfg) ==
    IF ds = <<>> THEN <<>>
    ELSE document_entries(Head(ds)[1], Head(ds)[2], cfg) \o all_entries(Tail(ds), cfg)

(***************************************************************************)
(* The vector index (chromadb), as ingest.py and retriever.py use it.  A   *)
(* store is [exists, items]; a Collection object a thread holds is "live"  *)
(* until the collection it names is deleted, and "stale" afterwards.  What *)
(* a stale object does is the index's business: both outcomes are kept.    *)
(***************************************************************************)
no_collection == [exists |-> FALSE, items |-> <<>>]

\* mutant of delete_collection: the stored chunks survive the delete
delete_collection_keeps_data(st) == st

\* line 136: client.delete_collection(CHROMA_COLLECTION)
delete_collection(st) == no_collection

\* lines 58-61, 141-144: client.get_or_create_collection(...)
get_or_create_collection(st) ==
    IF st.exists THEN st ELSE [exists |-> TRUE, items |-> <<>>]

ids_of(items) == {items[i].id : i \in 1..Len(items)}

RECURSIVE without_known(_, _)
without_known(es, known) ==
    IF es = <<>> THEN <<>>
    ELSE IF Head(es).id \in known THEN without_known(Tail(es), known)
         ELSE <<Head(es)>> \o without_known(Tail(es), known)

\* mutant of collection_add: the last chunk of the batch is not stored
collection_add_short(st, es) ==
    [st EXCEPT !.items = @ \o without_known(SubSeq(es, 1, Len(es) - 1), ids_of(@))]

\* lines 171-176: collection.add(...); an id already stored is skipped
collection_add(st, es) ==
    [st EXCEPT !.items = @ \o without_known(es, ids_of(@))]

(***************************************************************************)
(* search, retriever.py lines 18-63: the pure parts.  A distance is an     *)
(* integer number of 1/DistScale, a score one of 1/ScoreScale.             *)
(***************************************************************************)
DistScale == 20000
\* line 53: cosine distance is in [0, 2]
MaxDistance == 2
\* line 54: round(..., 4)
ScoreScale == 10000

\* round(num/den) as Python's round() gives it: to the nearest; on an exact
\* decimal tie the float's binary expansion decides, so both neighbours
round_outcomes(num, den) ==
    LET q == num \div den
        r == num % den
    IN  IF 2 * r < den THEN {q}
        ELSE IF 2 * r > den THEN {q + 1}
        ELSE {q, q + 1}

\* mutant of similarity: 1 - distance, the division by 2 forgotten
similarity_undivided(distance) ==
    round_outcomes(ScoreScale * (DistScale - distance), DistScale)

\* line 54: round(1.0 - (distance / 2.0), 4), the scores it may give
similarity(distance) ==
    round_outcomes(ScoreScale * (2 * DistScale - distance), 2 * DistScale)

\* mutant of collection_is_empty: "<" for "=="
collection_is_negative(count) == count < 0

\* line 28: collection.count() == 0
collection_is_empty(count) == count = 0

\* line 38: min(top_k, collection.count())
n_results_of(topk, count) == IF topk < count THEN topk ELSE count

(***************************************************************************)
(* State.  Three groups: one call of chunk_text run a loop iteration at a  *)
(* time; one distance-to-score conversion; and the service, two threads    *)
(* calling ingest_documents and search / get_collection_count on the       *)
(* shared singletons and the shared collection.                            *)
(***************************************************************************)
VARIABLES
    text, chunk_size, overlap,   \* the arguments of chunk_text
    paragraphs,                  \* line 76
    k,                           \* position of the for loop of line 81
    chunks, current_chunk,       \* lines 78-79
    seed, seeds,                 \* history: carried-over text, see above
    pc                           \* "start", "loop", "done"

VARIABLES
    distance,                    \* retriever.py line 51: a distance of the index
    score                        \* retriever.py line 54: <<similarity>> once computed

VARIABLES
    config,                      \* config.py lines 25-26, read from the environment
    embedding_model,             \* ingest.py line 29: _embedding_model
    chroma_client,               \* ingest.py line 28: _chroma_client
    models_built, clients_built, \* history: constructor runs
    models_returned,             \* history: instances get_embedding_model returned
    clients_returned,            \* history: instances get_chroma_client returned
    store,                       \* the collection CHROMA_COLLECTION of the index
    at,                          \* each thread's position
    call,                        \* the function each thread is running
    handle,                      \* each thread's Collection object
    docs, batch,                 \* ingest_documents: docs, all_ids/all_chunks/all_metadatas
    top_k, n_results,            \* search: its argument, line 38
    ret,                         \* each thread's last outcome
    prev,                        \* history: the ingest call before the last one
    last_read                    \* history: the latest collection.count() since the
                                 \* last ingest call began

chunkVars == <<text, chunk_size, overlap, paragraphs, k, chunks, current_chunk,
               seed, seeds, pc>>
scoreVars == <<distance, score>>
singletonVars == <<embedding_model, chroma_client, models_built, clients_built,
                   models_returned, clients_returned>>
serviceVars == <<config, singletonVars, store, at, call, handle, docs, batch,
                 top_k, n_results, ret, prev, last_read>>
vars == <<chunkVars, scoreVars, serviceVars>>

\* all strings over Alphabet of at most n characters
Strings(A, n) == UNION {[1..m -> A] : m \in 0..n}

\* spec.md section 8, example scenario 1
ExampleText ==
    <<"P","a","r","a"," ","o","n","e",".", NL, NL,
      "P","a","r","a"," ","t","w","o",".", NL, NL,
      "P","a","r","a"," ","t","h","r","e","e",".">>
Example == [text |-> ExampleText, chunk_size |-> 20, overlap |-> 0]

ChunkInit ==
    /\ \/ /\ text \in Strings(Alphabet, MaxTextLen)
          /\ chunk_size \in 1..MaxChunkSize
          /\ overlap \in 0..MaxOverlap
       \/ /\ text \in Strings(LongAlphabet, MaxLongLen)
          /\ chunk_size \in (MaxChunkSize + 1)..MaxLongChunkSize
          /\ overlap \in 0..MaxOverlap
       \/ /\ text = Example.text
          /\ chunk_size = Example.chunk_size
          /\ overlap = Example.overlap
    /\ paragraphs = <<>>
    /\ k = 0
    /\ chunks = <<>>
    /\ current_chunk = <<>>
    /\ seed = <<>>
    /\ seeds = <<>>
    /\ pc = "start"

loop_state == [chunks |-> chunks, current_chunk |-> current_chunk,
               seeds |-> seeds, seed |-> seed]

SetLoopState(st) ==
    /\ chunks' = st.chunks
    /\ current_chunk' = st.current_chunk
    /\ seeds' = st.seeds
    /\ seed' = st.seed

\* lines 76-79
SplitText ==
    /\ pc = "start"
    /\ paragraphs' = split_paragraphs(text)
    /\ SetLoopState(loop_init)
    /\ k' = 1
    /\ pc' = "loop"
    /\ UNCHANGED <<text, chunk_size, overlap, scoreVars, serviceVars>>

Iterate ==
    /\ pc = "loop"
    /\ k <= Len(paragraphs)
    /\ SetLoopState(loop_body(loop_state, paragraphs[k], chunk_size, overlap))
    /\ k' = k + 1
    /\ UNCHANGED <<text, chunk_size, overlap, paragraphs, pc, scoreVars, serviceVars>>

\* lines 83-87: close the accumulator, seed the next one with its tail
CloseAndCarry ==
    /\ pc = "loop" /\ k <= Len(paragraphs)
    /\ must_close(current_chunk, paragraphs[k], chunk_size)
    /\ keeps_overlap(current_chunk, overlap)
    /\ Iterate

\* lines 83-84, 88-89: close the accumulator, start from the paragraph alone
CloseAndRestart ==
    /\ pc = "loop" /\ k <= Len(paragraphs)
    /\ must_close(current_chunk, paragraphs[k], chunk_size)
    /\ ~keeps_overlap(current_chunk, overlap)
    /\ Iterate

\* lines 90-92: the paragraph joins a non-empty accumulator
AppendParagraph ==
    /\ pc = "loop" /\ k <= Len(paragraphs)
    /\ ~must_close(current_chunk, paragraphs[k], chunk_size)
    /\ current_chunk /= <<>>
    /\ Iterate

\* lines 93-94: the paragraph opens the first accumulator
FirstParagraph ==
    /\ pc = "loop" /\ k <= Len(paragraphs)
    /\ current_chunk = <<>>
    /\ Iterate

\* lines 96-100
LastChunk ==
    /\ pc = "loop"
    /\ k > Len(paragraphs)
    /\ SetLoopState(final_chunk(loop_state))
    /\ pc' = "done"
    /\ UNCHANGED <<text, chunk_size, overlap, paragraphs, k, scoreVars, serviceVars>>

ChunkNext ==
    \/ SplitText
    \/ CloseAndCarry
    \/ CloseAndRestart
    \/ AppendParagraph
    \/ FirstParagraph
    \/ LastChunk

(***************************************************************************)
(* One conversion of a distance to a score, retriever.py lines 53-54.      *)
(***************************************************************************)
ScoreInit ==
    /\ distance \in 0..(MaxDistance * DistScale)
    /\ score = <<>>

Convert ==
    /\ score = <<>>
    /\ \E sim \in similarity(distance) : score' = <<sim>>
    /\ UNCHANGED <<distance, chunkVars, serviceVars>>

(***************************************************************************)
(* The service.                                                            *)
(***************************************************************************)
\* ingest.py lines 28-29: the singletons start as None; instances are 1, 2, ...
None == 0
MaxTopK == 2

IngestThread == "ingest"
SearchThread == "search"
Threads == {IngestThread, SearchThread}

\* the names load_documents can find, in sorted() order (ingest.py line 116)
Filenames == << <<"a", ".", "m", "d">>, <<"b", ".", "m", "d">> >>
File(content) == [exists |-> TRUE, content |-> content]
Absent == [exists |-> FALSE, content |-> <<>>]
\* file contents: one without a paragraph, one with two paragraphs
Contents == { <<SP, NL>>, <<"a", "a", NL, NL, "b">> }
\* what POLICIES_DIR may hold when load_documents reads it
DiskStates == [1..Len(Filenames) -> {File(c) : c \in Contents} \cup {Absent}]

\* config.py lines 25-26: the defaults, and a small setting of the variables
Configs == { [CHUNK_SIZE |-> 500, CHUNK_OVERLAP |-> 50],
             [CHUNK_SIZE |-> 2, CHUNK_OVERLAP |-> 1] }

\* the distances the index reports in the service runs
DistSamples == {0, 2, MaxDistance * DistScale}

\* ingest.py lines 106-121: (filename, content) of every file, sorted by name
RECURSIVE load_from(_, _)
load_from(d, i) ==
    IF i > Len(Filenames) THEN <<>>
    ELSE IF ~d[i].exists THEN load_from(d, i + 1)
         ELSE << <<Filenames[i], d[i].content>> >> \o load_from(d, i + 1)

load_documents(d) == load_from(d, 1)

NoRead == [phase |-> "none", line |-> "none", size |-> 0]
NoOutcome == [kind |-> "none"]
Raised == [kind |-> "raised"]
Returned(v) == [kind |-> "ok", value |-> v]

\* ingest_documents between its delete_collection (line 136) and the end of
\* its collection.add (line 176)
Window == {"create", "load", "add"}

ServiceInit ==
    /\ config \in Configs
    /\ embedding_model = None
    /\ chroma_client = None
    /\ models_built = 0
    /\ clients_built = 0
    /\ models_returned = {}
    /\ clients_returned = {}
    /\ store = no_collection
    /\ at = [t \in Threads |-> "idle"]
    /\ call = [t \in Threads |-> "none"]
    /\ handle = [t \in Threads |-> "none"]
    /\ docs = <<>>
    /\ batch = <<>>
    /\ top_k = 0
    /\ n_results = 0
    /\ ret = [t \in Threads |-> NoOutcome]
    /\ prev = [completed |-> FALSE]
    /\ last_read = NoRead

Goto(t, label) == at' = [at EXCEPT ![t] = label]
\* a return or a raise: the outcome, and the call's locals are gone
Finish(t, outcome) ==
    /\ at' = [at EXCEPT ![t] = "idle"]
    /\ ret' = [ret EXCEPT ![t] = outcome]
    /\ handle' = [handle EXCEPT ![t] = "none"]
    /\ IF t = SearchThread
       THEN top_k' = 0 /\ n_results' = 0 /\ UNCHANGED batch
       ELSE batch' = <<>> /\ UNCHANGED <<top_k, n_results>>

\* ---- the singletons, ingest.py lines 28-52 ----

\* lines 48 and 52: the test, and the return when the model exists
GetModelCheck(t) ==
    /\ at[t] = "model"
    /\ IF embedding_model = None
       THEN /\ Goto(t, "model_new")
            /\ UNCHANGED models_returned
       ELSE /\ Goto(t, "client")
            /\ models_returned' = models_returned \cup {embedding_model}
    /\ UNCHANGED <<config, embedding_model, chroma_client, models_built,
                   clients_built, clients_returned, store, call, handle, docs, batch,
                   top_k, n_results, ret, prev, last_read, chunkVars, scoreVars>>

\* lines 49-52: SentenceTransformer(EMBEDDING_MODEL), the assignment, the return
GetModelBuild(t) ==
    /\ at[t] = "model_new"
    /\ models_built' = models_built + 1
    /\ embedding_model' = models_built + 1
    /\ models_returned' = models_returned \cup {models_built + 1}
    /\ Goto(t, "client")
    /\ UNCHANGED <<config, chroma_client, clients_built, clients_returned,
                   store, call, handle, docs, batch, top_k, n_results, ret, prev,
                   last_read, chunkVars, scoreVars>>

\* where get_chroma_client returns to: ingest_documents line 134, or
\* get_collection line 58
after_client(t) == IF call[t] = "ingest_documents" THEN "delete" ELSE "collection"

\* lines 35 and 42
GetClientCheck(t) ==
    /\ at[t] = "client"
    /\ IF chroma_client = None
       THEN /\ Goto(t, "client_new")
            /\ UNCHANGED clients_returned
       ELSE /\ Goto(t, after_client(t))
            /\ clients_returned' = clients_returned \cup {chroma_client}
    /\ UNCHANGED <<config, embedding_model, chroma_client, models_built,
                   clients_built, models_returned, store, call, handle, docs, batch,
                   top_k, n_results, ret, prev, last_read, chunkVars, scoreVars>>

\* lines 36-42: the constructor, the assignment, the return
GetClientBuild(t) ==
    /\ at[t] = "client_new"
    /\ clients_built' = clients_built + 1
    /\ chroma_client' = clients_built + 1
    /\ clients_returned' = clients_returned \cup {clients_built + 1}
    /\ Goto(t, after_client(t))
    /\ UNCHANGED <<config, embedding_model, models_built, models_returned,
                   store, call, handle, docs, batch, top_k, n_results, ret, prev,
                   last_read, chunkVars, scoreVars>>

\* ---- ingest_documents, ingest.py lines 124-179 ----

\* what the call that just ended left, kept for comparison with the next one
last_ingest ==
    IF ret[IngestThread].kind = "ok"
    THEN [completed |-> TRUE, docs |-> docs, result |-> ret[IngestThread].value,
          ids |-> ids_of(store.items), size |-> Len(store.items)]
    ELSE [completed |-> FALSE]

\* the call, up to line 131
IngestCall ==
    /\ at[IngestThread] = "idle"
    /\ Goto(IngestThread, "model")
    /\ call' = [call EXCEPT ![IngestThread] = "ingest_documents"]
    /\ ret' = [ret EXCEPT ![IngestThread] = NoOutcome]
    /\ prev' = last_ingest
    /\ last_read' = NoRead
    /\ UNCHANGED <<config, singletonVars, store, handle, docs, batch, top_k,
                   n_results, chunkVars, scoreVars>>

\* lines 135-139: delete_collection; every Collection object of it goes stale
IngestDelete ==
    /\ at[IngestThread] = "delete"
    /\ store' = delete_collection(store)
    /\ handle' = [t \in Threads |-> IF handle[t] = "live" THEN "stale" ELSE handle[t]]
    /\ Goto(IngestThread, "create")
    /\ UNCHANGED <<config, singletonVars, call, docs, batch, top_k, n_results,
                   ret, prev, last_read, chunkVars, scoreVars>>

\* lines 141-144
IngestCreate ==
    /\ at[IngestThread] = "create"
    /\ store' = get_or_create_collection(store)
    /\ handle' = [handle EXCEPT ![IngestThread] = "live"]
    /\ Goto(IngestThread, "load")
    /\ UNCHANGED <<config, singletonVars, call, docs, batch, top_k, n_results,
                   ret, prev, last_read, chunkVars, scoreVars>>

\* lines 146-149: no document, return (0, 0)
IngestNoDocuments ==
    /\ at[IngestThread] = "load"
    /\ \E d \in DiskStates : load_documents(d) = <<>>
    /\ docs' = <<>>
    /\ Finish(IngestThread, Returned(<<0, 0>>))
    /\ UNCHANGED <<config, singletonVars, store, call, prev, last_read, chunkVars, scoreVars>>

\* lines 146-168: load, chunk every document, embed the batch
IngestChunk ==
    /\ at[IngestThread] = "load"
    /\ \E d \in DiskStates :
          /\ load_documents(d) /= <<>>
          /\ docs' = load_documents(d)
          /\ batch' = all_entries(load_documents(d), config)
    /\ Goto(IngestThread, "add")
    /\ UNCHANGED <<config, singletonVars, store, call, handle, top_k,
                   n_results, ret, prev, last_read, chunkVars, scoreVars>>

\* lines 171-179: store the batch, return the counts
IngestAdd ==
    /\ at[IngestThread] = "add"
    /\ batch /= <<>>
    /\ store' = collection_add(store, batch)
    /\ Finish(IngestThread, Returned(<<Len(docs), Len(batch)>>))
    /\ UNCHANGED <<config, singletonVars, call, docs, prev, last_read, chunkVars, scoreVars>>

\* lines 168-179 when no document holds a paragraph: the index is handed
\* empty lists, which it either rejects (the call raises) or ignores
IngestAddNothing ==
    /\ at[IngestThread] = "add"
    /\ batch = <<>>
    /\ \/ Finish(IngestThread, Raised)
       \/ Finish(IngestThread, Returned(<<Len(docs), 0>>))
    /\ UNCHANGED <<config, singletonVars, store, call, docs, prev, last_read, chunkVars, scoreVars>>

\* ---- search and get_collection_count, retriever.py ----

\* where ingest_documents is: in its window, at rest, or before its delete
phase ==
    IF at[IngestThread] \in Window THEN "window"
    ELSE IF at[IngestThread] = "idle" THEN "rest" ELSE "before"

\* a size read by collection.count(), with the phase and the reading line
noted(size) == [phase |-> phase, line |-> at[SearchThread], size |-> size]

\* whether the thread's Collection object reaches a collection: a stale one
\* raises (StaleCollection) or, resolved by name, reaches the collection
\* that now carries the name
reaches(t) == handle[t] = "live" \/ (handle[t] = "stale" /\ store.exists)

\* the call of search, up to line 25
SearchCall ==
    /\ at[SearchThread] = "idle"
    /\ top_k' \in 0..MaxTopK
    /\ n_results' = 0
    /\ Goto(SearchThread, "model")
    /\ call' = [call EXCEPT ![SearchThread] = "search"]
    /\ ret' = [ret EXCEPT ![SearchThread] = NoOutcome]
    /\ handle' = [handle EXCEPT ![SearchThread] = "none"]
    /\ UNCHANGED <<config, singletonVars, store, docs, batch, prev,
                   last_read, chunkVars, scoreVars>>

\* the call of get_collection_count, retriever.py lines 66-68
CountCall ==
    /\ at[SearchThread] = "idle"
    /\ Goto(SearchThread, "client")
    /\ call' = [call EXCEPT ![SearchThread] = "get_collection_count"]
    /\ ret' = [ret EXCEPT ![SearchThread] = NoOutcome]
    /\ handle' = [handle EXCEPT ![SearchThread] = "none"]
    /\ UNCHANGED <<config, singletonVars, store, docs, batch, top_k,
                   n_results, prev, last_read, chunkVars, scoreVars>>

\* ingest.py lines 58-61: get_or_create_collection in get_collection
GetCollection ==
    /\ at[SearchThread] = "collection"
    /\ store' = get_or_create_collection(store)
    /\ handle' = [handle EXCEPT ![SearchThread] = "live"]
    /\ Goto(SearchThread, IF call[SearchThread] = "search" THEN "count" ELSE "size")
    /\ UNCHANGED <<config, singletonVars, call, docs, batch, top_k, n_results,
                   ret, prev, last_read, chunkVars, scoreVars>>

\* a Collection object whose collection was deleted: the index may raise
StaleCollection ==
    /\ at[SearchThread] \in {"count", "n_results", "query", "size"}
    /\ handle[SearchThread] = "stale"
    /\ Finish(SearchThread, Raised)
    /\ UNCHANGED <<config, singletonVars, store, call, docs, prev, last_read, chunkVars, scoreVars>>

\* retriever.py lines 28-30
SearchCount ==
    /\ at[SearchThread] = "count"
    /\ reaches(SearchThread)
    /\ last_read' = noted(Len(store.items))
    /\ IF collection_is_empty(Len(store.items))
       THEN Finish(SearchThread, Returned(<<>>))
       ELSE Goto(SearchThread, "n_results")
            /\ UNCHANGED <<ret, handle, batch, top_k, n_results>>
    /\ UNCHANGED <<config, singletonVars, store, call, docs, prev, chunkVars, scoreVars>>

\* lines 33 and 38: the query is embedded, the size is read again
SearchNResults ==
    /\ at[SearchThread] = "n_results"
    /\ reaches(SearchThread)
    /\ last_read' = noted(Len(store.items))
    /\ n_results' = n_results_of(top_k, Len(store.items))
    /\ Goto(SearchThread, "query")
    /\ UNCHANGED <<config, singletonVars, store, call, handle, docs, batch,
                   top_k, ret, prev, chunkVars, scoreVars>>

\* line 36 with n_results <= 0, or more than the collection now holds:
\* the index rejects the request
SearchQueryRejected ==
    /\ at[SearchThread] = "query"
    /\ reaches(SearchThread)
    /\ n_results <= 0 \/ n_results > Len(store.items)
    /\ Finish(SearchThread, Raised)
    /\ UNCHANGED <<config, singletonVars, store, call, docs, prev, last_read, chunkVars, scoreVars>>

\* sequences of n distinct positions of a collection of the given size
Selections(size, n) ==
    {sel \in [1..n -> 1..size] : \A i, j \in 1..n : i /= j => sel[i] /= sel[j]}

\* n distances in ascending order
Ascending(n) ==
    {ds \in [1..n -> DistSamples] : \A i, j \in 1..n : i <= j => ds[i] <= ds[j]}

\* line 54 for each distance of the answer
Similarities(ds) ==
    {sims \in [DOMAIN ds -> UNION {similarity(ds[i]) : i \in DOMAIN ds}] :
        \A i \in DOMAIN ds : sims[i] \in similarity(ds[i])}

\* lines 56-60: ChunkResult(text, source, score)
ChunkResult(item, sim) ==
    [text |-> item.document, source |-> item.metadata.source, score |-> sim]

\* lines 36-63: the index returns n_results stored chunks (all of them when
\* it holds fewer) by ascending distance; each becomes a ChunkResult
SearchQuery ==
    /\ at[SearchThread] = "query"
    /\ reaches(SearchThread)
    /\ n_results > 0
    /\ LET n == n_results_of(n_results, Len(store.items))
       IN  \E sel \in Selections(Len(store.items), n) :
           \E ds \in Ascending(n) :
           \E sims \in Similarities(ds) :
              Finish(SearchThread,
                  Returned([i \in 1..n |-> ChunkResult(store.items[sel[i]], sims[i])]))
    /\ UNCHANGED <<config, singletonVars, store, call, docs, prev, last_read, chunkVars, scoreVars>>

\* retriever.py line 68
CountSize ==
    /\ at[SearchThread] = "size"
    /\ reaches(SearchThread)
    /\ last_read' = noted(Len(store.items))
    /\ Finish(SearchThread, Returned(Len(store.items)))
    /\ UNCHANGED <<config, singletonVars, store, call, docs, prev, chunkVars, scoreVars>>

ServiceNext ==
    \/ \E t \in Threads : GetModelCheck(t)
    \/ \E t \in Threads : GetModelBuild(t)
    \/ \E t \in Threads : GetClientCheck(t)
    \/ \E t \in Threads : GetClientBuild(t)
    \/ IngestCall
    \/ IngestDelete
    \/ IngestCreate
    \/ IngestNoDocuments
    \/ IngestChunk
    \/ IngestAdd
    \/ IngestAddNothing
    \/ SearchCall
    \/ CountCall
    \/ GetCollection
    \/ StaleCollection
    \/ SearchCount
    \/ SearchNResults
    \/ SearchQueryRejected
    \/ SearchQuery
    \/ CountSize

(***************************************************************************)
(* The specifications.  Each runs one group and leaves the others at rest. *)
(***************************************************************************)
ChunkAtRest ==
    /\ text = <<>> /\ chunk_size = 1 /\ overlap = 0
    /\ paragraphs = <<>> /\ k = 0 /\ chunks = <<>> /\ current_chunk = <<>>
    /\ seed = <<>> /\ seeds = <<>> /\ pc = "done"

ScoreAtRest == distance = 0 /\ score = <<>>

ServiceAtRest ==
    /\ ServiceInit
    /\ config = [CHUNK_SIZE |-> 500, CHUNK_OVERLAP |-> 50]

\* chunk_text on every bounded input
InitChunk == ChunkInit /\ ScoreAtRest /\ ServiceAtRest
SpecChunk == InitChunk /\ [][ChunkNext]_vars

\* the conversion on every distance of the grid
InitScore == ScoreInit /\ ChunkAtRest /\ ServiceAtRest
SpecScore == InitScore /\ [][Convert]_vars

\* the service: ingest_documents in one thread, search and
\* get_collection_count in another
Init == ServiceInit /\ ChunkAtRest /\ ScoreAtRest
Spec == Init /\ [][ServiceNext]_vars

(***************************************************************************)
(* Properties of chunk_text (checked under SpecChunk).                     *)
(***************************************************************************)
IsPrefix(p, s) == Len(p) <= Len(s) /\ SubSeq(s, 1, Len(p)) = p
IsSuffix(p, s) == Len(p) <= Len(s) /\ SubSeq(s, Len(s) - Len(p) + 1, Len(s)) = p

RECURSIVE concat_all(_)
concat_all(xs) == IF xs = <<>> THEN <<>> ELSE Head(xs) \o concat_all(Tail(xs))

\* chunk j without the overlap prefix carried over from the previous chunk
body(j) == SubSeq(chunks[j], Len(lstrip(seeds[j])) + 1, Len(chunks[j]))
\* the paragraphs chunk j holds besides that prefix
body_paragraphs(j) == split(body(j), SEP)
\* the exception of the size bound: a single paragraph longer than chunk_size
oversized(j) == Len(body_paragraphs(j)) = 1 /\ Len(body(j)) > chunk_size

ExampleRun ==
    text = Example.text /\ chunk_size = Example.chunk_size /\ overlap = Example.overlap

ParaOne == <<"P","a","r","a"," ","o","n","e",".">>
ParaTwo == <<"P","a","r","a"," ","t","w","o",".">>
ParaThree == <<"P","a","r","a"," ","t","h","r","e","e",".">>

\* C1 as stated: the example text at chunk_size 20, overlap 0 yields one chunk
\* per paragraph.
C1_ThreeChunks ==
    (ExampleRun /\ pc = "done") => chunks = <<ParaOne, ParaTwo, ParaThree>>

\* C1 amended: 9 + 9 + 2 = 20 is not greater than 20, so the first two
\* paragraphs are merged and the example yields exactly two chunks.
C1_TwoChunks ==
    (ExampleRun /\ pc = "done") => chunks = <<ParaOne \o SEP \o ParaTwo, ParaThree>>

C1_Witness == ExampleRun /\ pc = "done" /\ Len(chunks) = 2

\* C2 as stated: every chunk is at most chunk_size + overlap long, unless it
\* holds a single paragraph longer than chunk_size.
C2_SizeBound ==
    \A j \in 1..Len(chunks) :
        Len(chunks[j]) <= chunk_size + overlap \/ oversized(j)

\* C2 amended: every chunk is at most chunk_size + overlap + 2 long (the
\* separator that joins the carried overlap to the paragraph counts too),
\* unless it holds a single paragraph longer than chunk_size.
C2_SizeBoundWithSeparator ==
    \A j \in 1..Len(chunks) :
        Len(chunks[j]) <= chunk_size + overlap + 2 \/ oversized(j)

C2_Witness ==
    /\ pc = "done"
    /\ \E j \in 1..Len(chunks) :
        /\ Len(chunks[j]) = chunk_size + overlap + 2
        /\ ~oversized(j)
        /\ seeds[j] /= <<>>

\* C4: ignoring the carried overlap prefixes, the chunks hold every non-empty
\* trimmed paragraph of the text exactly once, whole and in order; a text
\* without such a paragraph yields no chunk.
C4_Coverage ==
    pc = "done" =>
        /\ Len(seeds) = Len(chunks)
        /\ \A j \in 1..Len(chunks) :
            /\ IsPrefix(lstrip(seeds[j]), chunks[j])
            /\ j = 1 => seeds[j] = <<>>
            /\ (j > 1 /\ seeds[j] /= <<>>) =>
                   /\ Len(seeds[j]) = overlap + 2
                   /\ IsSuffix(SEP, seeds[j])
                   /\ IsSuffix(lstrip(SubSeq(seeds[j], 1, overlap)), chunks[j - 1])
        /\ concat_all([j \in 1..Len(chunks) |-> body_paragraphs(j)])
               = split_paragraphs(text)
        /\ split_paragraphs(text) = <<>> => chunks = <<>>

C4_Witness ==
    /\ pc = "done"
    /\ Len(split_paragraphs(text)) >= 3
    /\ Len(chunks) >= 2
    /\ \E j \in 1..Len(chunks) : seeds[j] /= <<>> /\ Len(body_paragraphs(j)) >= 2

\* C10: a close with overlap > 0 and len(accumulator) > overlap opens the
\* next accumulator with the last `overlap` characters of the closed one, a
\* separator and the paragraph, so the next chunk starts with the trimmed
\* tail of the chunk before it; any other close opens it with the paragraph
\* alone.
C10_Closing ==
    /\ pc = "loop"
    /\ k <= Len(paragraphs)
    /\ Len(chunks') = Len(chunks) + 1

C10_NextAccumulator ==
    IF overlap > 0 /\ Len(current_chunk) > overlap
    THEN /\ current_chunk'
              = SubSeq(current_chunk, Len(current_chunk) - overlap + 1, Len(current_chunk))
                \o SEP \o paragraphs[k]
         /\ \E n \in 1..overlap :
              /\ IsSuffix(SubSeq(current_chunk', 1 + overlap - n, overlap), chunks'[Len(chunks')])
              /\ IsPrefix(SubSeq(current_chunk', 1 + overlap - n, overlap), strip(current_chunk'))
    ELSE current_chunk' = paragraphs[k]

C10_OverlapCarry == [][C10_Closing => C10_NextAccumulator]_vars

C10_Witness ==
    /\ pc = "done"
    /\ overlap > 0
    /\ \E j \in 2..Len(chunks) :
        /\ seeds[j] /= <<>>
        /\ IsPrefix(lstrip(SubSeq(seeds[j], 1, overlap)), chunks[j])
        /\ IsSuffix(lstrip(SubSeq(seeds[j], 1, overlap)), chunks[j - 1])

(***************************************************************************)
(* Properties of the score conversion (checked under SpecScore).           *)
(***************************************************************************)
Abs(x) == IF x < 0 THEN -x ELSE x

\* the score lies in [0, 1] and within half a unit of 1 - distance/2
C3_RoundedInRange ==
    /\ 0 <= score[1] /\ score[1] <= ScoreScale
    /\ 2 * Abs(score[1] * 2 * DistScale - ScoreScale * (2 * DistScale - distance))
           <= 2 * DistScale

\* C3 as stated: every score is in [0, 1], is 1 - distance/2 rounded to 4
\* decimals, and is 1.0 only when the distance is exactly 0.
C3_OneOnlyAtZero ==
    score /= <<>> =>
        /\ C3_RoundedInRange
        /\ score[1] = ScoreScale => distance = 0

\* C3 amended: every score is in [0, 1] and is 1 - distance/2 rounded to 4
\* decimals; a score of 1.0 is returned for distance 0 and for every small
\* distance that rounds to it, and never for a distance of 0.0002 or more.
C3_OneOnlyNearZero ==
    score /= <<>> =>
        /\ C3_RoundedInRange
        /\ score[1] = ScoreScale => distance * ScoreScale < 2 * DistScale

C3_Witness == score = <<ScoreScale>> /\ distance > 0

(***************************************************************************)
(* Properties of the service (checked under Spec).                         *)
(***************************************************************************)
IngestAtRest == at[IngestThread] = "idle" /\ ret[IngestThread].kind = "ok"

\* C5: after a completed ingest the collection holds exactly the chunks of
\* the documents that call saw, and a second ingest of the same documents
\* returns the same counts and leaves the same ids and the same size.
C5_Idempotent ==
    IngestAtRest =>
        /\ store.items = all_entries(docs, config)
        /\ ret[IngestThread].value = <<Len(docs), Len(all_entries(docs, config))>>
        /\ (prev.completed /\ prev.docs = docs) =>
               /\ ret[IngestThread].value = prev.result
               /\ ids_of(store.items) = prev.ids
               /\ Len(store.items) = prev.size

C5_Witness ==
    /\ IngestAtRest
    /\ prev.completed /\ prev.docs = docs
    /\ Len(docs) = 2 /\ Len(store.items) >= 3

\* C6: a search that counts an empty collection returns the empty sequence
\* and does not raise, whatever its top_k; and the collection is empty after
\* an ingest that found no document, whatever it held before.
C6_CountsEmpty ==
    /\ at[SearchThread] = "count"
    /\ handle[SearchThread] = "live"
    /\ Len(store.items) = 0
    /\ at'[SearchThread] /= "count"

C6_EmptySearch ==
    /\ [][C6_CountsEmpty => ret'[SearchThread] = Returned(<<>>)]_vars
    /\ []((IngestAtRest /\ ret[IngestThread].value = <<0, 0>>) => Len(store.items) = 0)

C6_Witness ==
    /\ IngestAtRest /\ ret[IngestThread].value = <<0, 0>>
    /\ prev.completed /\ prev.size > 0
    /\ at[SearchThread] = "idle" /\ call[SearchThread] = "search"
    /\ ret[SearchThread] = Returned(<<>>)
    /\ last_read = [phase |-> "rest", line |-> "count", size |-> 0]

\* the items of one source file, in collection order
RECURSIVE of_source(_, _)
of_source(items, f) ==
    IF items = <<>> THEN <<>>
    ELSE IF Head(items).metadata.source = f
         THEN <<Head(items)>> \o of_source(Tail(items), f)
         ELSE of_source(Tail(items), f)

ChunkIdInfix == <<":", ":", "c", "h", "u", "n", "k", "_">>

\* C7: in every state the ids of the collection are pairwise distinct, each
\* is `source::chunk_<i>` with the item's own source and index, and the items
\* of each ingested file are its chunks, numbered 0..n-1 in chunk_text's
\* order.
C7_ChunkIds ==
    LET items == store.items
    IN  /\ \A i, j \in 1..Len(items) : i /= j => items[i].id /= items[j].id
        /\ \A i \in 1..Len(items) :
              /\ \E d \in 1..Len(docs) : docs[d][1] = items[i].metadata.source
              /\ \E n \in 0..Len(items) :
                    /\ items[i].id = items[i].metadata.source \o ChunkIdInfix \o str_int(n)
                    /\ items[i].metadata.chunk_index = str_int(n)
        /\ items /= <<>> =>
              \A d \in 1..Len(docs) :
                 LET mine == of_source(items, docs[d][1])
                     cs == chunk_text(docs[d][2], config.CHUNK_SIZE, config.CHUNK_OVERLAP)
                 IN  /\ Len(mine) = Len(cs)
                     /\ \A n \in 1..Len(mine) :
                           /\ mine[n].id = docs[d][1] \o ChunkIdInfix \o str_int(n - 1)
                           /\ mine[n].document = cs[n]

C7_Witness ==
    /\ Len(store.items) = 4
    /\ store.items[2].id = Filenames[1] \o ChunkIdInfix \o <<"1">>
    /\ store.items[3].id = Filenames[2] \o ChunkIdInfix \o <<"0">>

\* C8 as stated: each singleton is constructed at most once and every call
\* of its getter returns that one instance, interleaved calls included.
C8_Singletons ==
    /\ models_built <= 1 /\ clients_built <= 1
    /\ Cardinality(models_returned) <= 1
    /\ Cardinality(clients_returned) <= 1

\* C9: nothing keeps search out of ingest's delete-to-add window, and every
\* size it reads there is 0: the collection is empty throughout the window,
\* whatever it held before and will hold after.
C9_WindowIsEmpty ==
    /\ at[IngestThread] \in Window => Len(store.items) = 0
    /\ last_read.phase = "window" => last_read.size = 0
    /\ (at[IngestThread] \in Window /\ at[SearchThread] = "count"
            /\ handle[SearchThread] = "live") => ENABLED SearchCount

C9_Witness ==
    /\ IngestAtRest /\ Len(store.items) > 0
    /\ prev.completed /\ prev.size > 0
    /\ last_read = [phase |-> "window", line |-> "count", size |-> 0]
    /\ at[SearchThread] = "idle" /\ call[SearchThread] = "search"
    /\ ret[SearchThread] = Returned(<<>>)

====
